---- MODULE Spec2Model ----
(***************************************************************************)
(* Lesson orchestration of the Study & Learn chat (src/app.py).            *)
(*                                                                         *)
(* One Streamlit script run handles one interaction: a chat input (lines   *)
(* 360-376) or a sidebar "Start" click (lines 338-344).  A chat input that *)
(* is not banned appends the user message and invokes the compiled graph   *)
(*   START -> router -> {lesson | normal_chat | completion}                *)
(*   lesson -> {completion | END}, normal_chat -> END, completion -> END   *)
(* (lines 269-300).  Each graph node is one action of the model; pc is the *)
(* node about to run ("idle" between script runs).                         *)
(*                                                                         *)
(* Texts are Python strings.  A string is kept in the state as an atom and *)
(* Chars gives its characters, so that lower(), strip() and the substring  *)
(* test `in` are computed on characters as the code computes them.         *)
(*                                                                         *)
(* Not modelled: a failure of the completion service (the properties      *)
(* below are about turns in which it answers), the streamed rendering, the *)
(* model selector, the dead local `changed` of lesson_node (line 206), and *)
(* AppState.requested_tool, which no code reads or writes.  lessons_bank   *)
(* is loaded once and never changes, so it is a definition and not a       *)
(* variable.  The nodes mutate the messages list and the LessonState       *)
(* object of the session in place, so when the exporter raises the session *)
(* keeps what the nodes before it did.                                     *)
(***************************************************************************)
EXTENDS Integers, Sequences, FiniteSets, TLC

VARIABLES
    app_state,  \* st.session_state.app_state: [messages, lesson_state]
    pc,         \* graph node about to run, "idle" between script runs
    runs,       \* script runs that handled an interaction since the initial state
    refused,    \* the last script run showed the fixed refusal (line 368)
    ran,        \* handlers run by the current/last graph invocation, in order
    hit,        \* lesson id the router started in this invocation, or None
    called,     \* system prompts of the completion-service calls of this invocation
    coached,    \* what lesson_node did in this invocation
    export,     \* exporter outcome of this invocation
    pre,        \* snapshot taken when the current/last turn started
    prev,       \* snapshot taken when the turn before that started
    last_input, \* text of the last chat input (banned or not), None after a click
    exported,   \* arguments of the exporter calls of this invocation
    coach_runs  \* lesson_node invocations on the current LessonState object

vars == <<app_state, pc, runs, refused, ran, hit, called, coached, export, pre, prev,
          last_input, exported, coach_runs>>

(***************************************************************************)
(* Bounds                                                                  *)
(***************************************************************************)
MaxRuns == 4

\* runs of the always-answering session in which any input may be made
MaxLiveRuns == 2

(***************************************************************************)
(* Strings                                                                 *)
(***************************************************************************)
None == "None"

Chars ==
       ("teach me DMAIC" :> <<"t", "e", "a", "c", "h", " ", "m", "e", " ", "D", "M", "A", "I", "C">>)
    @@ ("Study 5s" :> <<"S", "t", "u", "d", "y", " ", "5", "s">>)
    @@ ("learn dmaic 5 Whys" :> <<"l", "e", "a", "r", "n", " ", "d", "m", "a", "i", "c", " ", "5", " ", "W", "h", "y", "s">>)
    @@ ("my DMAIC goal" :> <<"m", "y", " ", "D", "M", "A", "I", "C", " ", "g", "o", "a", "l">>)
    @@ ("learn more" :> <<"l", "e", "a", "r", "n", " ", "m", "o", "r", "e">>)
    @@ ("Self Harm" :> <<"S", "e", "l", "f", " ", "H", "a", "r", "m">>)
    @@ ("Study 5s suicide" :> <<"S", "t", "u", "d", "y", " ", "5", "s", " ", "s", "u", "i", "c", "i", "d", "e">>)
    @@ ("" :> <<>>)
    @@ (" " :> <<" ">>)
    @@ ("ok" :> <<"o", "k">>)
    @@ ("teach me" :> <<"t", "e", "a", "c", "h", " ", "m", "e">>)
    @@ ("learn" :> <<"l", "e", "a", "r", "n">>)
    @@ ("study" :> <<"s", "t", "u", "d", "y">>)
    @@ ("build a bomb" :> <<"b", "u", "i", "l", "d", " ", "a", " ", "b", "o", "m", "b">>)
    @@ ("self harm" :> <<"s", "e", "l", "f", " ", "h", "a", "r", "m">>)
    @@ ("suicide" :> <<"s", "u", "i", "c", "i", "d", "e">>)
    @@ ("harm others" :> <<"h", "a", "r", "m", " ", "o", "t", "h", "e", "r", "s">>)
    @@ ("DMAIC" :> <<"D", "M", "A", "I", "C">>)
    @@ ("5S" :> <<"5", "S">>)
    @@ ("5 Whys" :> <<"5", " ", "W", "h", "y", "s">>)

\* str.lower(), on the letters that occur in the texts
LowerChar(c) ==
    CASE c = "A" -> "a" [] c = "C" -> "c" [] c = "D" -> "d" [] c = "H" -> "h"
      [] c = "I" -> "i" [] c = "M" -> "m" [] c = "S" -> "s" [] c = "W" -> "w"
      [] OTHER -> c

Lower(s) == [i \in 1..Len(s) |-> LowerChar(s[i])]

\* `needle in hay` on strings: needle is a contiguous run of hay
Contains(needle, hay) ==
    \E i \in 0..(Len(hay) - Len(needle)) :
        \A j \in 1..Len(needle) : hay[i + j] = needle[j]

RECURSIVE LStrip(_)
LStrip(s) == IF s # <<>> /\ Head(s) = " " THEN LStrip(Tail(s)) ELSE s

RECURSIVE RStrip(_)
RStrip(s) ==
    IF s # <<>> /\ s[Len(s)] = " " THEN RStrip(SubSeq(s, 1, Len(s) - 1)) ELSE s

\* str.strip()
Strip(s) == RStrip(LStrip(s))

\* truthiness of accum.strip() (lines 196, 227)
NonBlank(text) == Strip(Chars[text]) # <<>>

(***************************************************************************)
(* Inputs                                                                  *)
(***************************************************************************)
\* what the user can type into st.chat_input (never empty: line 361)
UserTexts ==
    { "teach me DMAIC", "Study 5s", "learn dmaic 5 Whys", "my DMAIC goal",
      "learn more", "Self Harm", "Study 5s suicide" }

\* what the completion service can stream back, concatenated
Replies == { "", " ", "ok" }

(***************************************************************************)
(* Lesson catalog (load_lessons), in the dict's iteration order            *)
(***************************************************************************)
\* A catalog of three lessons: the artifact lesson "dmaic" with two steps, a
\* lesson with one step and a lesson whose YAML defines no steps.
lessons_bank ==
    << [id |-> "5whys", title |-> "5 Whys", steps |-> << >>],
       [id |-> "dmaic", title |-> "DMAIC",  steps |-> <<"Define", "Measure">>],
       [id |-> "5s",    title |-> "5S",     steps |-> <<"Sort">>] >>

LessonIds == { lessons_bank[i].id : i \in 1..Len(lessons_bank) }

\* lessons_bank.get(lesson_id, {}).get("steps", [])
StepsOf(lesson_id) ==
    IF lesson_id \in LessonIds
    THEN (CHOOSE l \in { lessons_bank[i] : i \in 1..Len(lessons_bank) } :
              l.id = lesson_id).steps
    ELSE << >>

Min(S) == CHOOSE x \in S : \A y \in S : x <= y

(***************************************************************************)
(* LessonState and AppState                                                *)
(***************************************************************************)
EmptyMap == [k \in {} |-> ""]

\* LessonState(): every field at its default
DefaultLessonState ==
    [ active               |-> FALSE,
      lesson_id            |-> None,
      current_step_idx     |-> 0,
      improvement_suggested |-> FALSE,
      user_entries         |-> EmptyMap,
      guidance             |-> EmptyMap,
      completed            |-> FALSE ]

\* LessonState(active=True, lesson_id=lid, current_step_idx=0)
StartedLessonState(lid) ==
    [DefaultLessonState EXCEPT !.active = TRUE, !.lesson_id = lid,
                               !.current_step_idx = 0]

\* d[k] = v on a dict
Put(d, k, v) == [x \in (DOMAIN d) \cup {k} |-> IF x = k THEN v ELSE d[x]]

Msg(role, content) == [role |-> role, content |-> content]

LastIsUser(messages) ==
    Len(messages) > 0 /\ messages[Len(messages)].role = "user"

(***************************************************************************)
(* Intent detection and the graph nodes                                    *)
(***************************************************************************)
triggers == <<"teach me", "learn", "study">>

banned == <<"build a bomb", "self harm", "suicide", "harm others">>

\* mutant: the titles are looked for as written in the catalog
nlu_detect_titles_as_written(text, lesson_titles) ==
    LET lowered == Lower(Chars[text])
        found == { i \in 1..Len(lesson_titles) :
                       Contains(Chars[lesson_titles[i]], lowered) }
    IN  IF (\E t \in 1..Len(triggers) : Contains(Chars[triggers[t]], lowered))
           /\ found # {}
        THEN lesson_titles[Min(found)]
        ELSE None

\* the first title of lesson_titles contained in the lowered text, when the text
\* holds a trigger; None otherwise
nlu_detect_lesson_request(text, lesson_titles) ==
    LET lowered == Lower(Chars[text])
        found == { i \in 1..Len(lesson_titles) :
                       Contains(Lower(Chars[lesson_titles[i]]), lowered) }
    IN  IF (\E t \in 1..Len(triggers) : Contains(Chars[triggers[t]], lowered))
           /\ found # {}
        THEN lesson_titles[Min(found)]
        ELSE None

\* the lesson id router_node starts for this state, or None
router_hit(state) ==
    IF LastIsUser(state.messages)
    THEN LET user_text == state.messages[Len(state.messages)].content
             titles == [i \in 1..Len(lessons_bank) |-> lessons_bank[i].title]
             h == nlu_detect_lesson_request(user_text, titles)
             same == { i \in 1..Len(lessons_bank) :
                          Lower(Chars[lessons_bank[i].title]) = Lower(Chars[h]) }
         IN  IF h # None /\ h # "" /\ same # {}
             THEN lessons_bank[Min(same)].id
             ELSE None
    ELSE None

\* mutant: the router re-targets the lesson state in place of replacing it
router_node_merge(state) ==
    IF router_hit(state) # None
    THEN [state EXCEPT !.lesson_state.active = TRUE,
                       !.lesson_state.lesson_id = router_hit(state),
                       !.lesson_state.current_step_idx = 0]
    ELSE state

\* mutant: the router starts a lesson only when none is active
router_node_keeps_lesson(state) ==
    IF router_hit(state) # None /\ ~state.lesson_state.active
    THEN [state EXCEPT !.lesson_state = StartedLessonState(router_hit(state))]
    ELSE state

router_node(state) ==
    IF router_hit(state) # None
    THEN [state EXCEPT !.lesson_state = StartedLessonState(router_hit(state))]
    ELSE state

\* what lesson_node does for this state: which branch it takes
lesson_pass(state) ==
    LET ls == state.lesson_state
    IN  IF ~ls.active \/ ls.lesson_id = None THEN "none"
        ELSE IF ls.current_step_idx >= Len(StepsOf(ls.lesson_id)) THEN "out_of_range"
        ELSE IF ~LastIsUser(state.messages) THEN "none"
        ELSE IF ~ls.improvement_suggested THEN "first"
        ELSE "second"

\* mutant: the second pass advances only when the answer changed
step_progression_gated(ls, user_input) ==
    IF ~ls.improvement_suggested
    THEN [ls EXCEPT !.user_entries = Put(@, ls.current_step_idx, user_input),
                    !.improvement_suggested = TRUE]
    ELSE IF user_input # ls.user_entries[ls.current_step_idx]
    THEN [ls EXCEPT !.current_step_idx = @ + 1, !.improvement_suggested = FALSE]
    ELSE ls

\* mutant: the second pass skips a step
step_progression_skip(ls, user_input) ==
    IF ~ls.improvement_suggested
    THEN [ls EXCEPT !.user_entries = Put(@, ls.current_step_idx, user_input),
                    !.improvement_suggested = TRUE]
    ELSE [ls EXCEPT !.current_step_idx = @ + 2, !.improvement_suggested = FALSE]

\* mutant: the second pass records its message too
step_progression_overwrite(ls, user_input) ==
    IF ~ls.improvement_suggested
    THEN [ls EXCEPT !.user_entries = Put(@, ls.current_step_idx, user_input),
                    !.improvement_suggested = TRUE]
    ELSE [ls EXCEPT !.user_entries = Put(@, ls.current_step_idx, user_input),
                    !.current_step_idx = @ + 1, !.improvement_suggested = FALSE]

\* mutant: the first pass raises the flag and records nothing
step_progression_no_entry(ls, user_input) ==
    IF ~ls.improvement_suggested
    THEN [ls EXCEPT !.improvement_suggested = TRUE]
    ELSE [ls EXCEPT !.current_step_idx = @ + 1, !.improvement_suggested = FALSE]

\* mutant: the first pass records the entry and advances at once
step_progression_single_pass(ls, user_input) ==
    [ls EXCEPT !.user_entries = Put(@, ls.current_step_idx, user_input),
               !.current_step_idx = @ + 1,
               !.improvement_suggested = FALSE]

\* mutant: the second pass advances and leaves improvement_suggested set
step_progression_keeps_flag(ls, user_input) ==
    IF ~ls.improvement_suggested
    THEN [ls EXCEPT !.user_entries = Put(@, ls.current_step_idx, user_input),
                    !.improvement_suggested = TRUE]
    ELSE [ls EXCEPT !.current_step_idx = @ + 1]

\* lines 201-208: step progression (one improvement cycle)
step_progression(ls, user_input) ==
    IF ~ls.improvement_suggested
    THEN [ls EXCEPT !.user_entries = Put(@, ls.current_step_idx, user_input),
                    !.improvement_suggested = TRUE]
    ELSE [ls EXCEPT !.current_step_idx = @ + 1, !.improvement_suggested = FALSE]

\* mutant: past the last step the coach still appends the reply
lesson_node_replies_past_end(state, accum) ==
    LET ls == state.lesson_state
        steps == StepsOf(ls.lesson_id)
    IN  IF ~ls.active \/ ls.lesson_id = None THEN state
        ELSE IF ls.current_step_idx >= Len(steps)
        THEN [ messages |-> Append(state.messages, Msg("assistant", accum)),
               lesson_state |-> [ls EXCEPT !.completed = TRUE] ]
        ELSE IF LastIsUser(state.messages)
        THEN LET messages == IF NonBlank(accum)
                             THEN Append(state.messages, Msg("assistant", accum))
                             ELSE state.messages
                 user_input == IF Len(messages) >= 2
                               THEN messages[Len(messages) - 1].content
                               ELSE ""
                 ls1 == step_progression(ls, user_input)
                 ls2 == IF ls1.current_step_idx >= Len(steps)
                        THEN [ls1 EXCEPT !.completed = TRUE]
                        ELSE ls1
             IN  [messages |-> messages, lesson_state |-> ls2]
        ELSE state

lesson_node(state, accum) ==
    LET ls == state.lesson_state
        steps == StepsOf(ls.lesson_id)
    IN  IF ~ls.active \/ ls.lesson_id = None THEN state
        ELSE IF ls.current_step_idx >= Len(steps)
        THEN [state EXCEPT !.lesson_state.completed = TRUE]
        ELSE IF LastIsUser(state.messages)
        THEN LET messages == IF NonBlank(accum)
                             THEN Append(state.messages, Msg("assistant", accum))
                             ELSE state.messages
                 user_input == IF Len(messages) >= 2
                               THEN messages[Len(messages) - 1].content
                               ELSE ""
                 ls1 == step_progression(ls, user_input)
                 ls2 == IF ls1.current_step_idx >= Len(steps)
                        THEN [ls1 EXCEPT !.completed = TRUE]
                        ELSE ls1
             IN  [messages |-> messages, lesson_state |-> ls2]
        ELSE state

\* get_system_prompt: the base prompt alone, or the base prompt plus the outline
\* of the active lesson
get_system_prompt(state) ==
    IF state.lesson_state.active /\ state.lesson_state.lesson_id # None
    THEN [base |-> TRUE, lesson |-> state.lesson_state.lesson_id]
    ELSE [base |-> TRUE, lesson |-> None]

\* mutant: the reply is appended whatever it holds
normal_chat_node_appends_always(state, accum) ==
    IF state.lesson_state.active /\ ~state.lesson_state.completed THEN state
    ELSE IF LastIsUser(state.messages)
    THEN [state EXCEPT !.messages = Append(@, Msg("assistant", accum))]
    ELSE state

normal_chat_node(state, accum) ==
    IF state.lesson_state.active /\ ~state.lesson_state.completed THEN state
    ELSE IF LastIsUser(state.messages) /\ NonBlank(accum)
    THEN [state EXCEPT !.messages = Append(@, Msg("assistant", accum))]
    ELSE state

\* mutant: the records read user_entries one step late
filled_one_late(state) ==
    LET steps == StepsOf(state.lesson_state.lesson_id)
        entries == state.lesson_state.user_entries
    IN  [ idx \in 1..Len(steps) |->
            [ step |-> steps[idx],
              user_input |-> IF idx \in DOMAIN entries
                             THEN entries[idx] ELSE "" ] ]

\* lines 242-250: one record per step, in step order (goals and best_practices
\* are copied from the catalog and left out)
filled(state) ==
    LET steps == StepsOf(state.lesson_state.lesson_id)
        entries == state.lesson_state.user_entries
    IN  [ idx \in 1..Len(steps) |->
            [ step |-> steps[idx],
              user_input |-> IF (idx - 1) \in DOMAIN entries
                             THEN entries[idx - 1] ELSE "" ] ]

\* the exporter is invoked for the lesson whose id is "dmaic" only
exports(state) ==
    state.lesson_state.active /\ state.lesson_state.completed
    /\ state.lesson_state.lesson_id = "dmaic"

\* mutant: the "dmaic" branch falls through to the generic message
completion_node_falls_through(state, export_ok) ==
    LET ls == state.lesson_state
        generic == Msg("assistant", "Lesson complete.")
    IN  IF ~ls.active \/ ~ls.completed THEN state
        ELSE IF ls.lesson_id = "dmaic"
        THEN IF export_ok
             THEN [ messages |-> Append(Append(state.messages, Msg("assistant",
                        "DMAIC lesson complete. Slides generated and ready to download.")),
                        generic),
                    lesson_state |-> DefaultLessonState ]
             ELSE state
        ELSE [ messages |-> Append(state.messages, generic),
               lesson_state |-> DefaultLessonState ]

\* mutant: the lesson state is not reset
completion_node_no_reset(state, export_ok) ==
    LET ls == state.lesson_state
    IN  IF ~ls.active \/ ~ls.completed THEN state
        ELSE IF ls.lesson_id = "dmaic"
        THEN IF export_ok
             THEN [state EXCEPT !.messages = Append(@, Msg("assistant",
                        "DMAIC lesson complete. Slides generated and ready to download."))]
             ELSE state
        ELSE [state EXCEPT !.messages = Append(@, Msg("assistant", "Lesson complete."))]

\* mutant: the reset clears the flags and keeps the progress fields
completion_node_partial_reset(state, export_ok) ==
    LET ls == state.lesson_state
        reset == [ls EXCEPT !.active = FALSE, !.lesson_id = None, !.completed = FALSE]
    IN  IF ~ls.active \/ ~ls.completed THEN state
        ELSE IF ls.lesson_id = "dmaic"
        THEN IF export_ok
             THEN [ messages |-> Append(state.messages, Msg("assistant",
                        "DMAIC lesson complete. Slides generated and ready to download.")),
                    lesson_state |-> reset ]
             ELSE state
        ELSE [ messages |-> Append(state.messages, Msg("assistant", "Lesson complete.")),
               lesson_state |-> reset ]

\* mutant: the reset starts the transcript over with the completion message
completion_node_new_transcript(state, export_ok) ==
    LET ls == state.lesson_state
    IN  IF ~ls.active \/ ~ls.completed THEN state
        ELSE IF ls.lesson_id = "dmaic"
        THEN IF export_ok
             THEN [ messages |-> << Msg("assistant",
                        "DMAIC lesson complete. Slides generated and ready to download.") >>,
                    lesson_state |-> DefaultLessonState ]
             ELSE state
        ELSE [ messages |-> << Msg("assistant", "Lesson complete.") >>,
               lesson_state |-> DefaultLessonState ]

\* mutant: the reset is done before the exporter is called
completion_node_reset_first(state, export_ok) ==
    LET ls == state.lesson_state
    IN  IF ~ls.active \/ ~ls.completed THEN state
        ELSE IF ls.lesson_id = "dmaic"
        THEN IF export_ok
             THEN [ messages |-> Append(state.messages, Msg("assistant",
                        "DMAIC lesson complete. Slides generated and ready to download.")),
                    lesson_state |-> DefaultLessonState ]
             ELSE [ state EXCEPT !.lesson_state = DefaultLessonState ]
        ELSE [ messages |-> Append(state.messages, Msg("assistant", "Lesson complete.")),
               lesson_state |-> DefaultLessonState ]

\* export_ok = FALSE: export_dmaic_to_pptx raises and the exception leaves the
\* node at line 251, before anything was mutated
completion_node(state, export_ok) ==
    LET ls == state.lesson_state
    IN  IF ~ls.active \/ ~ls.completed THEN state
        ELSE IF ls.lesson_id = "dmaic"
        THEN IF export_ok
             THEN [ messages |-> Append(state.messages, Msg("assistant",
                        "DMAIC lesson complete. Slides generated and ready to download.")),
                    lesson_state |-> DefaultLessonState ]
             ELSE state
        ELSE [ messages |-> Append(state.messages, Msg("assistant", "Lesson complete.")),
               lesson_state |-> DefaultLessonState ]

\* mutant: an active lesson goes to the coach whether completed or not
should_go_lesson_active_first(state) ==
    IF state.lesson_state.active THEN "lesson"
    ELSE IF state.lesson_state.completed THEN "completion"
    ELSE "normal_chat"

should_go_lesson(state) ==
    IF state.lesson_state.active /\ ~state.lesson_state.completed THEN "lesson"
    ELSE IF state.lesson_state.completed THEN "completion"
    ELSE "normal_chat"

\* mutant: the lesson node always ends the invocation
after_lesson_always_end(state) == "idle"

\* END is the return to the script, pc = "idle"
after_lesson(state) ==
    IF state.lesson_state.completed THEN "completion" ELSE "idle"

\* build_lesson_kickoff: one text per lesson
build_lesson_kickoff(lid) ==
    CASE lid = "dmaic" -> "Starting lesson: DMAIC"
      [] lid = "5s"    -> "Starting lesson: 5S"
      [] OTHER         -> "Starting lesson: 5 Whys"

\* mutant: the banned phrases are looked for in the text as typed
IsBanned_as_typed(user_input) ==
    \E b \in 1..Len(banned) : Contains(Chars[banned[b]], Chars[user_input])

\* any(term in user_input.lower() for term in banned)
IsBanned(user_input) ==
    \E b \in 1..Len(banned) : Contains(Chars[banned[b]], Lower(Chars[user_input]))

(***************************************************************************)
(* Initial state and actions                                               *)
(***************************************************************************)
NoSnap == [valid |-> FALSE, ls |-> DefaultLessonState, len |-> 0, text |-> ""]

NoCoach == [pass |-> "none", idx |-> 0, lesson_id |-> None, completed |-> FALSE]

\* ensure_session_defaults: AppState(lessons_bank=load_lessons())
Init ==
    /\ app_state = [messages |-> << >>, lesson_state |-> DefaultLessonState]
    /\ pc = "idle"
    /\ runs = 0
    /\ refused = FALSE
    /\ ran = << >>
    /\ hit = None
    /\ called = << >>
    /\ coached = NoCoach
    /\ export = "none"
    /\ pre = NoSnap
    /\ prev = NoSnap
    /\ last_input = None
    /\ exported = << >>
    /\ coach_runs = 0

\* lines 361-368: a banned input shows the refusal and touches nothing else
ChatInputBanned(user_input) ==
    /\ pc = "idle"
    /\ runs < MaxRuns
    /\ IsBanned(user_input)
    /\ refused' = TRUE
    /\ runs' = runs + 1
    /\ last_input' = user_input
    /\ UNCHANGED <<app_state, pc, ran, hit, called, coached, export, pre, prev,
                   exported, coach_runs>>

\* lines 369-371: append the user message and invoke the graph
ChatInputRun(user_input) ==
    /\ pc = "idle"
    /\ ~IsBanned(user_input)
    /\ app_state' = [app_state EXCEPT !.messages = Append(@, Msg("user", user_input))]
    /\ pc' = "router"
    /\ runs' = runs + 1
    /\ refused' = FALSE
    /\ ran' = << >>
    /\ hit' = None
    /\ called' = << >>
    /\ coached' = NoCoach
    /\ export' = "none"
    /\ prev' = pre
    /\ pre' = [ valid |-> TRUE, ls |-> app_state.lesson_state,
                len |-> Len(app_state.messages), text |-> user_input ]
    /\ last_input' = user_input
    /\ exported' = << >>
    /\ UNCHANGED coach_runs

ChatInput(user_input) == runs < MaxRuns /\ ChatInputRun(user_input)

\* lines 338-344: a sidebar button starts a lesson and appends its kickoff message
SidebarStart(lid) ==
    /\ pc = "idle"
    /\ runs < MaxRuns
    /\ app_state' = [ messages |-> Append(app_state.messages,
                          Msg("assistant", build_lesson_kickoff(lid))),
                      lesson_state |-> StartedLessonState(lid) ]
    /\ runs' = runs + 1
    /\ refused' = FALSE
    /\ ran' = << >>
    /\ hit' = None
    /\ called' = << >>
    /\ coached' = NoCoach
    /\ export' = "none"
    /\ pre' = NoSnap
    /\ prev' = NoSnap
    /\ last_input' = None
    /\ exported' = << >>
    /\ coach_runs' = 0
    /\ UNCHANGED pc

RouterNode ==
    /\ pc = "router"
    /\ app_state' = router_node(app_state)
    /\ hit' = router_hit(app_state)
    /\ pc' = should_go_lesson(app_state')
    /\ coach_runs' = IF router_hit(app_state) # None THEN 0 ELSE coach_runs
    /\ UNCHANGED <<runs, refused, ran, called, coached, export, pre, prev,
                   last_input, exported>>

LessonNode ==
    /\ pc = "lesson"
    /\ \E accum \in Replies :
          /\ app_state' = lesson_node(app_state, accum)
    /\ ran' = Append(ran, "lesson")
    /\ coached' = [ pass |-> lesson_pass(app_state),
                    idx |-> app_state.lesson_state.current_step_idx,
                    lesson_id |-> app_state.lesson_state.lesson_id,
                    completed |-> app_state'.lesson_state.completed ]
    /\ called' = IF lesson_pass(app_state) \in {"first", "second"}
                 THEN Append(called, get_system_prompt(app_state))
                 ELSE called
    /\ pc' = after_lesson(app_state')
    /\ coach_runs' = coach_runs + 1
    /\ UNCHANGED <<runs, refused, hit, export, pre, prev, last_input, exported>>

NormalChatNode ==
    /\ pc = "normal_chat"
    /\ \E accum \in Replies :
          /\ app_state' = normal_chat_node(app_state, accum)
    /\ ran' = Append(ran, "normal_chat")
    /\ called' = IF (app_state.lesson_state.active /\ ~app_state.lesson_state.completed)
                    \/ ~LastIsUser(app_state.messages)
                 THEN called
                 ELSE Append(called, get_system_prompt(app_state))
    /\ pc' = "idle"
    /\ UNCHANGED <<runs, refused, hit, coached, export, pre, prev,
                   last_input, exported, coach_runs>>

CompletionRun(export_ok) ==
    /\ pc = "completion"
    /\ app_state' = completion_node(app_state, export_ok)
    /\ export' = IF exports(app_state)
                 THEN (IF export_ok THEN "ok" ELSE "failed")
                 ELSE "none"
    /\ coach_runs' = IF app_state'.lesson_state # app_state.lesson_state
                     THEN 0 ELSE coach_runs
    /\ exported' = IF exports(app_state)
                   THEN Append(exported, filled(app_state))
                   ELSE exported
    /\ ran' = Append(ran, "completion")
    /\ pc' = "idle"
    /\ UNCHANGED <<runs, refused, hit, called, coached, pre, prev, last_input>>

CompletionNode == \E export_ok \in BOOLEAN : CompletionRun(export_ok)

Next ==
    \/ \E user_input \in UserTexts : ChatInputBanned(user_input)
    \/ \E user_input \in UserTexts : ChatInput(user_input)
    \/ \E lid \in LessonIds : SidebarStart(lid)
    \/ RouterNode
    \/ LessonNode
    \/ NormalChatNode
    \/ CompletionNode

Spec == Init /\ [][Next]_vars

\* A session three turns into the DMAIC lesson: "teach me DMAIC", "my DMAIC goal"
\* and "learn more", each answered "ok".  It is the state Spec reaches after
\* those three runs (LateSession, with runs = 3 there); starting from it leaves
\* MaxRuns further runs for what follows the end of the lesson.
LateLessonState ==
    [ DefaultLessonState EXCEPT
        !.active = TRUE, !.lesson_id = "dmaic", !.current_step_idx = 1,
        !.improvement_suggested = TRUE,
        !.user_entries = (0 :> "teach me DMAIC") @@ (1 :> "learn more") ]

LateSession ==
    /\ app_state = [ messages |-> << Msg("user", "teach me DMAIC"), Msg("assistant", "ok"),
                                     Msg("user", "my DMAIC goal"), Msg("assistant", "ok"),
                                     Msg("user", "learn more"), Msg("assistant", "ok") >>,
                     lesson_state |-> LateLessonState ]
    /\ pc = "idle"
    /\ refused = FALSE
    /\ ran = <<"lesson">>
    /\ hit = None
    /\ called = << [base |-> TRUE, lesson |-> "dmaic"] >>
    /\ coached = [pass |-> "first", idx |-> 1, lesson_id |-> "dmaic", completed |-> FALSE]
    /\ export = "none"
    /\ pre = [ valid |-> TRUE, len |-> 4, text |-> "learn more",
               ls |-> [ StartedLessonState("dmaic") EXCEPT
                          !.current_step_idx = 1,
                          !.user_entries = (0 :> "teach me DMAIC") ] ]
    /\ prev = [ valid |-> TRUE, len |-> 2, text |-> "my DMAIC goal",
                ls |-> [ StartedLessonState("dmaic") EXCEPT
                           !.improvement_suggested = TRUE,
                           !.user_entries = (0 :> "teach me DMAIC") ] ]
    /\ last_input = "learn more"
    /\ exported = << >>
    /\ coach_runs = 3

InitLate == LateSession /\ runs = 0

SpecLate == InitLate /\ [][Next]_vars


\* The session of a user who keeps answering and an exporter that does not
\* raise.  Anything may be done in the first MaxLiveRuns runs (messages of any
\* kind, sidebar starts); at any time, and alone after them, a message that is
\* not banned and starts no lesson may be sent while a lesson is active, for
\* MaxDwell further runs (C21_RunsSuffice: a lesson never waits for a run that
\* this cap withholds).  The graph runs
\* each invocation to its end (compiled.invoke is synchronous), and the user
\* goes on sending such messages as long as a lesson is active.
StartedByText(text) ==
    router_hit([messages |-> <<Msg("user", text)>>, lesson_state |-> DefaultLessonState])

LiveChatInputBanned(user_input) == runs < MaxLiveRuns /\ ChatInputBanned(user_input)

LiveChatInput(user_input) == runs < MaxLiveRuns /\ ChatInput(user_input)

LiveSidebarStart(lid) == runs < MaxLiveRuns /\ SidebarStart(lid)

\* the coach turns the longest lesson of the catalog takes: two per step
MaxDwell ==
    LET lens == { Len(lessons_bank[i].steps) : i \in 1..Len(lessons_bank) }
    IN  2 * (CHOOSE m \in lens : \A k \in lens : k <= m)

KeepSending(user_input) ==
    /\ runs < MaxLiveRuns + MaxDwell
    /\ app_state.lesson_state.active
    /\ StartedByText(user_input) = None
    /\ ChatInputRun(user_input)

CompletionNodeOk == CompletionRun(TRUE)

NextLive ==
    \/ \E user_input \in UserTexts : LiveChatInputBanned(user_input)
    \/ \E user_input \in UserTexts : LiveChatInput(user_input)
    \/ \E lid \in LessonIds : LiveSidebarStart(lid)
    \/ \E user_input \in UserTexts : KeepSending(user_input)
    \/ RouterNode
    \/ LessonNode
    \/ NormalChatNode
    \/ CompletionNodeOk

\* a graph invocation goes on to its next node or to its end: at a node the
\* only step of NextLive is that node's
GraphProceeds ==
    /\ pc # "idle"
    /\ pc' \in {"idle", "lesson", "normal_chat", "completion"}
    /\ pc' # pc

\* while a lesson is active the user sends a message that is accepted
UserAnswers ==
    /\ pc = "idle"
    /\ runs < MaxLiveRuns + MaxDwell
    /\ app_state.lesson_state.active
    /\ pc' = "router"

SpecLive ==
    /\ Init
    /\ [][NextLive]_vars
    /\ WF_pc(GraphProceeds)
    /\ WF_pc(UserAnswers)

(***************************************************************************)
(* Vocabulary of the properties                                            *)
(***************************************************************************)
ls_now == app_state.lesson_state

\* a turn (one user message through the graph) has run to its end; the state is
\* the one the turn left, and pre is the state it started from
TurnEnded == pc = "idle" /\ pre.valid

\* the router has run in this turn and no handler has run yet
RouterOutput == pc \in {"lesson", "normal_chat", "completion"} /\ ran = << >>

\* the lesson a user message starts through the router, or None
StartedBy(text) ==
    router_hit([messages |-> <<Msg("user", text)>>, lesson_state |-> DefaultLessonState])

(***************************************************************************)
(* C1                                                                      *)
(***************************************************************************)
\* C1 (as claimed): every turn runs exactly one of the three handlers.  Stated
\* for the turns of lessons that have steps, where it fails already.
C1_ExactlyOneHandler ==
    (TurnEnded /\ coached.pass # "out_of_range") => Len(ran) = 1

\* C1 (amended): every turn runs one handler, the one should_go_lesson picks for
\* the router's output, and nothing else, except that the Completion Handler
\* runs after the Lesson Step Coach in the same turn exactly when the coach
\* returned with completed = true.  The Normal Chat Handler never shares a turn.
C1_HandlersPerTurn ==
    TurnEnded =>
        /\ ran \in { <<"lesson">>, <<"normal_chat">>, <<"completion">>,
                     <<"lesson", "completion">> }
        /\ (ran = <<"lesson", "completion">>) <=> (ran[1] = "lesson" /\ coached.completed)

\* a turn in which the coach and the Completion Handler both ran
C1_Witness == TurnEnded /\ ran = <<"lesson", "completion">> /\ coached.pass = "second"

(***************************************************************************)
(* C2                                                                      *)
(***************************************************************************)
\* the coach of this turn advanced current_step_idx to len(steps)
FinalAdvance ==
    /\ coached.pass = "second"
    /\ coached.idx + 1 = Len(StepsOf(coached.lesson_id))

\* C2 (as claimed): the turn of the final advancement ends with the lesson active
\* and completed, the Completion Handler not having run in it.
C2_CompletionNextTurn ==
    (TurnEnded /\ FinalAdvance) =>
        /\ ls_now.active /\ ls_now.completed
        /\ "completion" \notin { ran[i] : i \in 1..Len(ran) }

\* C2 (amended): when the coach advances current_step_idx to len(steps) it leaves
\* the lesson active and completed with the index at len(steps), and the
\* Completion Handler runs next in that same turn; the turn ends with the lesson
\* state reset to its defaults, or, when the exporter failed, with the lesson
\* still active and completed.
C2_CompletionSameTurn ==
    /\ (FinalAdvance /\ pc = "completion") =>
           /\ ran = <<"lesson">>
           /\ ls_now.active /\ ls_now.completed
           /\ ls_now.current_step_idx = Len(StepsOf(ls_now.lesson_id))
    /\ (FinalAdvance /\ TurnEnded) =>
           /\ ran = <<"lesson", "completion">>
           /\ export # "failed" => ls_now = DefaultLessonState
           /\ export = "failed" =>
                  /\ ls_now.active /\ ls_now.completed
                  /\ ls_now.current_step_idx = Len(StepsOf(ls_now.lesson_id))

\* the final advancement of the two-step lesson, completed and reset in one turn
C2_Witness ==
    /\ TurnEnded /\ FinalAdvance /\ coached.lesson_id = "dmaic"
    /\ ran = <<"lesson", "completion">> /\ export = "ok"
    /\ ls_now = DefaultLessonState

(***************************************************************************)
(* C3                                                                      *)
(***************************************************************************)
\* C3 (as claimed): a turn grows messages by at most 2, the user message and one
\* assistant message.
C3_AtMostOneAssistant == pre.valid => Len(app_state.messages) <= pre.len + 2

\* C3 (amended): a turn appends the user message and then assistant messages
\* only, at most two of them, and two only when the coach's reply is followed by
\* the Completion Handler's message in the same turn.
C3_AtMostTwoAssistant ==
    pre.valid =>
        /\ Len(app_state.messages) >= pre.len + 1
        /\ Len(app_state.messages) <= pre.len + 3
        /\ app_state.messages[pre.len + 1] = Msg("user", pre.text)
        /\ \A i \in (pre.len + 2)..Len(app_state.messages) :
               app_state.messages[i].role = "assistant"
        /\ Len(app_state.messages) = pre.len + 3 => ran = <<"lesson", "completion">>

\* a turn that appended the coach's reply and the completion message
C3_Witness ==
    /\ TurnEnded /\ Len(app_state.messages) = pre.len + 3
    /\ app_state.messages[pre.len + 2].content = "ok"
    /\ app_state.messages[pre.len + 3].content = "Lesson complete."

(***************************************************************************)
(* C4                                                                      *)
(***************************************************************************)
\* two turns in a row, the first one received on step i of a running lesson
\* with improvement_suggested false, neither message starting a lesson
TwoTurnsOnStep ==
    /\ TurnEnded /\ prev.valid
    /\ prev.ls.active /\ ~prev.ls.completed /\ ~prev.ls.improvement_suggested
    /\ prev.ls.current_step_idx < Len(StepsOf(prev.ls.lesson_id))
    /\ StartedBy(prev.text) = None /\ StartedBy(pre.text) = None

\* C4 (as claimed): after the first of the two turns improvement_suggested is
\* true and the index is still i; after the second the index is i+1 and
\* improvement_suggested is false, for every step, the last one included.
C4_TwoTurnLaw ==
    TwoTurnsOnStep =>
        /\ pre.ls.improvement_suggested
        /\ pre.ls.current_step_idx = prev.ls.current_step_idx
        /\ ls_now.current_step_idx = prev.ls.current_step_idx + 1
        /\ ~ls_now.improvement_suggested

\* C4 (amended): after the first turn improvement_suggested is true and the
\* index is still i; in the second turn the coach takes the second pass on step
\* i, whether or not the two messages differ.  When i is not the last step the
\* second turn ends with the index at i+1 and improvement_suggested false.  When
\* i is the last step the Completion Handler runs in that same turn, and the
\* turn ends with the lesson state reset to its defaults (index 0), or, when the
\* exporter failed, with the index at i+1, improvement_suggested false and the
\* lesson completed.
C4_TwoTurnLawAmended ==
    TwoTurnsOnStep =>
        LET i == prev.ls.current_step_idx
            n == Len(StepsOf(prev.ls.lesson_id))
        IN  /\ pre.ls.improvement_suggested
            /\ pre.ls.current_step_idx = i
            /\ pre.ls.lesson_id = prev.ls.lesson_id
            /\ coached.pass = "second" /\ coached.idx = i
            /\ i + 1 < n =>
                   /\ ran = <<"lesson">>
                   /\ ls_now.active /\ ~ls_now.completed
                   /\ ls_now.current_step_idx = i + 1
                   /\ ~ls_now.improvement_suggested
            /\ i + 1 = n =>
                   /\ ran = <<"lesson", "completion">>
                   /\ export # "failed" => ls_now = DefaultLessonState
                   /\ export = "failed" =>
                          /\ ls_now.active /\ ls_now.completed
                          /\ ls_now.current_step_idx = i + 1
                          /\ ~ls_now.improvement_suggested

\* the same message sent twice on a step that is not the last one
C4_Witness ==
    /\ TwoTurnsOnStep /\ prev.text = pre.text
    /\ prev.ls.current_step_idx = 0 /\ ls_now.current_step_idx = 1
    /\ ls_now.active /\ ~ls_now.improvement_suggested

(***************************************************************************)
(* C5                                                                      *)
(***************************************************************************)
\* C5 (as claimed): over a turn that starts and ends with a lesson active the
\* index grows by 0 or 1, lesson-start triggers included.
C5_StepMonotone ==
    (TurnEnded /\ pre.ls.active /\ ls_now.active) =>
        ls_now.current_step_idx - pre.ls.current_step_idx \in {0, 1}

\* C5 (amended): over a turn that starts and ends with a lesson active and in
\* which the router starts no lesson, the index grows by 0 or 1; a turn in which
\* the router starts a lesson ends with the index at 0, whatever it was.
C5_StepMonotoneAmended ==
    /\ (TurnEnded /\ pre.ls.active /\ ls_now.active /\ hit = None) =>
           /\ ls_now.current_step_idx - pre.ls.current_step_idx \in {0, 1}
           /\ ls_now.lesson_id = pre.ls.lesson_id
    /\ (TurnEnded /\ hit # None) => ls_now.current_step_idx = 0

\* a turn that advanced the index, and a lesson on step 1 restarted by the router
C5_Witness ==
    /\ TurnEnded /\ pre.ls.active /\ ls_now.active /\ hit = None
    /\ pre.ls.current_step_idx = 0 /\ ls_now.current_step_idx = 1
    /\ prev.valid /\ prev.ls.active

\* a lesson on step 1 that the router restarts at step 0
C5_RestartReached ==
    /\ TurnEnded /\ hit # None
    /\ pre.ls.active /\ pre.ls.current_step_idx = 1 /\ ls_now.current_step_idx = 0

(***************************************************************************)
(* C6                                                                      *)
(***************************************************************************)
\* C6: no Lesson Step Coach invocation changes or removes an entry that
\* user_entries already holds; the second pass on a step and the capture of a
\* later step leave the earlier entries as they are.
C6_EntryRetention ==
    [][ pc = "lesson" =>
          \A k \in DOMAIN ls_now.user_entries :
              /\ k \in DOMAIN app_state'.lesson_state.user_entries
              /\ app_state'.lesson_state.user_entries[k] = ls_now.user_entries[k] ]_vars

\* step 0 was captured, the second pass got a different message, and step 1 was
\* captured after it: the entry of step 0 is still the first message
C6_Witness ==
    /\ TurnEnded /\ prev.valid /\ coached.pass = "first" /\ coached.idx = 1
    /\ DOMAIN ls_now.user_entries = {0, 1}
    /\ ls_now.user_entries[0] # prev.text
    /\ ls_now.user_entries[0] # ls_now.user_entries[1]
    /\ ls_now.user_entries[0] = prev.ls.user_entries[0]
    /\ prev.ls.improvement_suggested

(***************************************************************************)
(* C7                                                                      *)
(***************************************************************************)
\* C7: when the Lesson Step Coach takes the first pass, the entry it stores for
\* the current step is the text of the user message that started the turn,
\* whatever the completion service replied.
C7_FirstPassCapture ==
    (pre.valid /\ coached.pass = "first") =>
        /\ coached.idx \in DOMAIN ls_now.user_entries
        /\ ls_now.user_entries[coached.idx] = pre.text

\* C7 holds of the turns whose reply is appended: the entry is the user message
\* when the reply is not blank
C7_CaptureWithReply ==
    (pre.valid /\ coached.pass = "first"
        /\ Len(app_state.messages) = pre.len + 2) =>
        /\ coached.idx \in DOMAIN ls_now.user_entries
        /\ ls_now.user_entries[coached.idx] = pre.text

(***************************************************************************)
(* C8                                                                      *)
(***************************************************************************)
\* C8: after a message started a lesson (one that has steps) through the
\* router, the user's next message, which starts no lesson, is the first pass on
\* step 0: that turn ends on step 0 with improvement_suggested true and the
\* message recorded as user_entries[0].
C8_NextMessageIsFirstPass ==
    (TurnEnded /\ prev.valid
        /\ StartedBy(prev.text) # None /\ StepsOf(StartedBy(prev.text)) # << >>
        /\ StartedBy(pre.text) = None) =>
        /\ ls_now.active
        /\ ls_now.current_step_idx = 0
        /\ ls_now.improvement_suggested
        /\ 0 \in DOMAIN ls_now.user_entries
        /\ ls_now.user_entries[0] = pre.text

\* what the code does: the turn of the trigger message already takes the first
\* pass on step 0, with the trigger message as the submission
C8_TriggerTurnIsFirstPass ==
    (TurnEnded /\ hit # None /\ StepsOf(hit) # << >>) =>
        /\ ran = <<"lesson">> /\ coached.pass = "first" /\ coached.idx = 0
        /\ ls_now.lesson_id = hit /\ ls_now.current_step_idx = 0
        /\ ls_now.improvement_suggested

(***************************************************************************)
(* C9                                                                      *)
(***************************************************************************)
\* the Completion Handler ran in this turn and the exporter did not fail
CompletionRanToEnd ==
    /\ TurnEnded /\ export # "failed"
    /\ ran # << >> /\ ran[Len(ran)] = "completion"

\* C9: whenever the Completion Handler runs to its end, the lesson state it
\* leaves is the default LessonState, for the "dmaic" lesson and the others alike.
C9_ResetAfterCompletion == CompletionRanToEnd => ls_now = DefaultLessonState

\* the Completion Handler exported the "dmaic" lesson, whose entries were
\* recorded, and left the default state
C9_Witness ==
    /\ CompletionRanToEnd /\ export = "ok"
    /\ pre.ls.lesson_id = "dmaic" /\ DOMAIN pre.ls.user_entries = {0, 1}
    /\ ls_now = DefaultLessonState

(***************************************************************************)
(* C10                                                                     *)
(***************************************************************************)
HasTrigger(text) ==
    \E t \in 1..Len(triggers) : Contains(Chars[triggers[t]], Lower(Chars[text]))

HasTitle(text, b) == Contains(Lower(Chars[lessons_bank[b].title]), Lower(Chars[text]))

\* C10 (as claimed): when a lesson is active and the message holds a trigger
\* phrase and the title of lesson B, the router's output is the fresh state of B.
C10_RouterOverride ==
    \A b \in 1..Len(lessons_bank) :
        (RouterOutput /\ pre.ls.active /\ HasTrigger(pre.text) /\ HasTitle(pre.text, b))
            => ls_now = StartedLessonState(lessons_bank[b].id)

\* C10 (amended): when a lesson is active and the message holds a trigger phrase
\* and the title of lesson B, and B is the first lesson of the catalog (in its
\* iteration order) whose title the message holds, the router's output is the
\* fresh state of B: active, step 0, improvement_suggested false, no entries.
C10_RouterOverrideFirstTitle ==
    \A b \in 1..Len(lessons_bank) :
        (RouterOutput /\ pre.ls.active /\ HasTrigger(pre.text) /\ HasTitle(pre.text, b)
            /\ \A a \in 1..(b - 1) : ~HasTitle(pre.text, a))
            => /\ ls_now.active /\ ~ls_now.completed
               /\ ls_now.lesson_id = lessons_bank[b].id
               /\ ls_now.current_step_idx = 0
               /\ ~ls_now.improvement_suggested
               /\ ls_now.user_entries = EmptyMap

\* lesson "dmaic" on step 1 with an entry and feedback pending, replaced by "5s"
C10_Witness ==
    /\ RouterOutput /\ pre.text = "Study 5s"
    /\ pre.ls.active /\ pre.ls.lesson_id = "dmaic" /\ pre.ls.current_step_idx = 1
    /\ pre.ls.improvement_suggested /\ DOMAIN pre.ls.user_entries = {0, 1}
    /\ ls_now = StartedLessonState("5s")

\* ---------------------------------------------------------------------------
\* C11. When the exporter fails inside the completion handler, the handler
\* changes nothing: the lesson is still active and completed, user_entries are
\* what they were when the handler was entered, and messages got no completion
\* message.
ExporterFailed == pc = "idle" /\ export = "failed"

C11_ExporterFailureFrame ==
    [][ (pc = "completion" /\ export' = "failed")
        => /\ app_state' = app_state
           /\ app_state'.lesson_state.active
           /\ app_state'.lesson_state.completed
           /\ app_state'.lesson_state.user_entries = app_state.lesson_state.user_entries
           /\ app_state'.messages = app_state.messages ]_vars

C11_Witness ==
    /\ ExporterFailed
    /\ ls_now.active /\ ls_now.completed
    /\ DOMAIN ls_now.user_entries = {0, 1}
    /\ ran = <<"lesson", "completion">>

\* ---------------------------------------------------------------------------
\* C12. A lesson left active and completed by a failed export: what the later
\* operations do to it.
\* StuckLesson: the lesson is completed and no coach pass of this turn made it
\* so (between turns, at the router, or dispatched to completion by the router).
StuckLesson ==
    /\ ls_now.active /\ ls_now.completed
    /\ \/ pc \in {"idle", "router"}
       \/ pc = "completion" /\ ran = << >>

\* C12 as stated: no operation leaves the completed-but-active state.
C12_StuckForever ==
    [][ StuckLesson => (ls_now'.active /\ ls_now'.completed) ]_vars

\* C12 amended: the lesson state is replaced by exactly three operations, a
\* router run on a message with trigger and title, a sidebar start, and a
\* completion run whose export succeeds; every other operation (a banned turn,
\* a chat input, a router run without a hit, which dispatches to completion, a
\* completion run whose export fails again) leaves it as it is.
C12_StuckUntilRestartOrExport ==
    [][ StuckLesson =>
        /\ (pc = "router" /\ hit' # None)
              => ls_now' = StartedLessonState(hit')
        /\ (pc = "router" /\ hit' = None)
              => (ls_now' = ls_now /\ pc' = "completion")
        /\ (pc = "completion" /\ export' = "ok")
              => ls_now' = DefaultLessonState
        /\ (pc = "completion" /\ export' # "ok")
              => (ls_now' = ls_now /\ export' = "failed" /\ pc' = "idle")
        /\ (pc = "idle" /\ last_input' = None)
              => (\E lid \in LessonIds : ls_now' = StartedLessonState(lid))
        /\ (pc = "idle" /\ last_input' # None)
              => ls_now' = ls_now ]_vars

\* a turn that began on the stuck lesson and whose message restarted a lesson
C12_Witness ==
    /\ TurnEnded
    /\ pre.ls.active /\ pre.ls.completed
    /\ hit # None
    /\ ~ls_now.completed

\* a turn that began on the stuck lesson and whose export failed again
C12_RetryFailed ==
    /\ TurnEnded
    /\ pre.ls.active /\ pre.ls.completed
    /\ ran = <<"completion">>
    /\ export = "failed"
    /\ ls_now = pre.ls

\* ---------------------------------------------------------------------------
\* C13. A chat input that contains a banned phrase, whatever its letter case
\* and whatever else it contains, changes nothing in the conversation state
\* (the catalog is a constant of the model): messages and lesson_state are
\* unchanged, the text is not appended, and no graph invocation starts, so
\* neither the router nor a handler runs.
HasBannedPhrase(text) ==
    \E b \in 1..Len(banned) : Contains(Lower(Chars[banned[b]]), Lower(Chars[text]))

\* a step that handles the chat input last_input'
ChatInputStep == pc = "idle" /\ runs' = runs + 1 /\ last_input' # None

C13_BannedShortCircuit ==
    [][ (ChatInputStep /\ HasBannedPhrase(last_input'))
        => /\ app_state' = app_state
           /\ pc' = "idle"
           /\ ran' = ran /\ called' = called /\ hit' = hit
           /\ refused' ]_vars

\* a banned text that also asks for a lesson, refused while a lesson was going on
C13_Witness ==
    /\ pc = "idle" /\ refused
    /\ last_input = "Study 5s suicide"
    /\ HasBannedPhrase(last_input) /\ HasTrigger(last_input) /\ HasTitle(last_input, 3)
    /\ ls_now.active /\ ls_now.lesson_id = "dmaic"
    /\ app_state.messages[Len(app_state.messages)].content # last_input

\* a banned text typed with capitals is refused too
C13_CapitalsRefused ==
    pc = "idle" /\ refused /\ last_input = "Self Harm" /\ Len(app_state.messages) > 0

\* ---------------------------------------------------------------------------
\* C14. The handler the router's output is dispatched to is the coach iff the
\* lesson is active and not completed, the completion handler iff it is
\* completed, and normal chat otherwise; completed implies active in every
\* state, so the completion handler is never entered without its precondition
\* and an inactive lesson state always goes to normal chat.
C14_DispatchRule ==
    /\ ls_now.completed => ls_now.active
    /\ RouterOutput =>
          /\ (pc = "lesson") <=> (ls_now.active /\ ~ls_now.completed)
          /\ (pc = "completion") <=> ls_now.completed
          /\ (pc = "normal_chat") <=> (~ls_now.active /\ ~ls_now.completed)
          /\ ~ls_now.active => pc = "normal_chat"
    /\ pc = "completion" => (ls_now.active /\ ls_now.completed)

\* the router dispatched a completed lesson straight to the completion handler
C14_Witness ==
    /\ RouterOutput
    /\ pc = "completion"
    /\ ls_now.active /\ ls_now.completed
    /\ hit = None

\* ---------------------------------------------------------------------------
\* C15. The router replaces lesson_state by a fresh active state on step 0 of a
\* matched lesson exactly when the latest message is a user message whose
\* lowered text holds a trigger phrase and the lowered title of a cataloged
\* lesson; otherwise lesson_state is left as it was; messages is never changed.
AsksForLesson(messages) ==
    /\ LastIsUser(messages)
    /\ HasTrigger(messages[Len(messages)].content)
    /\ \E b \in 1..Len(lessons_bank) : HasTitle(messages[Len(messages)].content, b)

C15_RouterStart ==
    [][ pc = "router"
        => /\ app_state'.messages = app_state.messages
           /\ AsksForLesson(app_state.messages)
                => \E b \in 1..Len(lessons_bank) :
                      /\ HasTitle(app_state.messages[Len(app_state.messages)].content, b)
                      /\ ls_now' = [ DefaultLessonState EXCEPT
                                       !.active = TRUE,
                                       !.lesson_id = lessons_bank[b].id,
                                       !.current_step_idx = 0 ]
           /\ ~AsksForLesson(app_state.messages) => ls_now' = ls_now ]_vars

\* the router replaced a DMAIC lesson in progress by a fresh 5S lesson
C15_Witness ==
    /\ RouterOutput
    /\ pre.text = "Study 5s"
    /\ pre.ls.active /\ pre.ls.lesson_id = "dmaic" /\ pre.ls.improvement_suggested
    /\ ls_now = StartedLessonState("5s")

\* a title without a trigger, and a trigger without a title, start nothing
C15_NoStartReached ==
    /\ RouterOutput
    /\ pre.text \in {"my DMAIC goal", "learn more"}
    /\ prev.valid /\ prev.text \in {"my DMAIC goal", "learn more"} \ {pre.text}
    /\ ls_now = pre.ls

\* ---------------------------------------------------------------------------
\* C16. messages is append-only: over every step (chat input, banned input,
\* sidebar start, router, coach, normal chat, completion) the messages before
\* the step are a prefix of the messages after it.
IsPrefix(s, t) == Len(s) <= Len(t) /\ \A i \in 1..Len(s) : t[i] = s[i]

C16_AppendOnly ==
    [][ IsPrefix(app_state.messages, app_state'.messages) ]_vars

\* a turn that ended with the completion reset, on a transcript that already
\* held messages, and added the user message, a reply and the completion message
C16_Witness ==
    /\ TurnEnded
    /\ ran = <<"lesson", "completion">>
    /\ pre.ls.active /\ ls_now = DefaultLessonState
    /\ pre.len > 0
    /\ Len(app_state.messages) = pre.len + 3

\* ---------------------------------------------------------------------------
\* C17. A turn dispatched to the normal chat handler calls the completion
\* service once, with the base system prompt alone; the reply is appended only
\* if it is non-blank after stripping; lesson_state is left as it was (the
\* catalog is a constant of the model).
C17_NormalChatFrame ==
    (pc = "idle" /\ ran = <<"normal_chat">>)
        => /\ called = << [base |-> TRUE, lesson |-> None] >>
           /\ ls_now = pre.ls
           /\ Len(app_state.messages) \in {pre.len + 1, pre.len + 2}
           /\ app_state.messages[pre.len + 1] = Msg("user", pre.text)
           /\ Len(app_state.messages) = pre.len + 2
                => /\ app_state.messages[pre.len + 2].role = "assistant"
                   /\ NonBlank(app_state.messages[pre.len + 2].content)

\* a normal chat turn whose reply was blank and was dropped
C17_Witness ==
    /\ pc = "idle" /\ ran = <<"normal_chat">>
    /\ called = << [base |-> TRUE, lesson |-> None] >>
    /\ Len(app_state.messages) = pre.len + 1
    /\ pre.len > 0

\* a normal chat turn whose reply was appended
C17_ReplyAppended ==
    /\ pc = "idle" /\ ran = <<"normal_chat">>
    /\ Len(app_state.messages) = pre.len + 2
    /\ app_state.messages[pre.len + 2] = Msg("assistant", "ok")

\* ---------------------------------------------------------------------------
\* C18. The completion handler calls the exporter, once, exactly when the
\* completed lesson is "dmaic", with one record per step in step order, each
\* holding the step's name and user_entries[index] ("" when absent); for any
\* other lesson the exporter is not called and "Lesson complete." is appended.
RecordsFor(records, ls) ==
    LET steps == StepsOf(ls.lesson_id)
    IN  /\ Len(records) = Len(steps)
        /\ \A index \in 0..(Len(steps) - 1) :
              /\ records[index + 1].step = steps[index + 1]
              /\ records[index + 1].user_input =
                    (IF index \in DOMAIN ls.user_entries
                     THEN ls.user_entries[index] ELSE "")

C18_ExporterInvocation ==
    [][ pc = "completion"
        => IF ls_now.lesson_id = "dmaic"
           THEN /\ exported = << >>
                /\ Len(exported') = 1
                /\ RecordsFor(exported'[1], ls_now)
           ELSE /\ exported' = << >>
                /\ app_state'.messages =
                      Append(app_state.messages, Msg("assistant", "Lesson complete.")) ]_vars

\* the exporter was called for DMAIC with both steps' entries
C18_Witness ==
    /\ pc = "idle" /\ ran = <<"lesson", "completion">>
    /\ Len(exported) = 1
    /\ exported[1] = << [step |-> "Define", user_input |-> "teach me DMAIC"],
                        [step |-> "Measure", user_input |-> "learn more"] >>

\* a 5S lesson was completed without a call of the exporter
C18_GenericReached ==
    /\ pc = "idle" /\ ran = <<"lesson", "completion">>
    /\ coached.lesson_id = "5s"
    /\ exported = << >>
    /\ app_state.messages[Len(app_state.messages)] = Msg("assistant", "Lesson complete.")

\* ---------------------------------------------------------------------------
\* C19. Between turns, while a lesson is active, improvement_suggested is TRUE
\* exactly when user_entries holds an entry for current_step_idx; and in every
\* state it is FALSE when the current step has no entry.
C19_ImprovementGate ==
    /\ (pc = "idle" /\ ls_now.active)
          => (ls_now.improvement_suggested
                <=> ls_now.current_step_idx \in DOMAIN ls_now.user_entries)
    /\ ls_now.current_step_idx \notin DOMAIN ls_now.user_entries
          => ~ls_now.improvement_suggested

\* feedback was given on the second step of DMAIC, after the first was advanced past
C19_Witness ==
    /\ TurnEnded /\ ls_now.active
    /\ ls_now.current_step_idx = 1
    /\ ls_now.improvement_suggested
    /\ DOMAIN ls_now.user_entries = {0, 1}

\* the step was advanced past: the new step has no entry and the flag is down
C19_AdvancedReached ==
    /\ TurnEnded /\ ls_now.active
    /\ coached.pass = "second"
    /\ ls_now.current_step_idx = 1
    /\ ~ls_now.improvement_suggested
    /\ DOMAIN ls_now.user_entries = {0}

\* ---------------------------------------------------------------------------
\* C20. A lesson with n >= 1 steps, once started (step 0, no feedback given)
\* and not restarted, becomes completed on exactly its 2n-th coach invocation:
\* the k-th invocation is the first pass on step (k-1) \div 2 when k is odd and
\* the second pass on step (k-2) \div 2 when k is even.  coach_runs counts the
\* coach invocations on the current lesson state and restarts with it.
LastRanLesson == ran # << >> /\ ran[Len(ran)] = "lesson"

C20_ExactDwell ==
    (ls_now.active /\ Len(StepsOf(ls_now.lesson_id)) >= 1)
        => LET n == Len(StepsOf(ls_now.lesson_id))
           IN  /\ ls_now.current_step_idx <= n
               /\ coach_runs = 2 * ls_now.current_step_idx
                                 + (IF ls_now.improvement_suggested THEN 1 ELSE 0)
               /\ ls_now.completed <=> coach_runs = 2 * n
               /\ (LastRanLesson /\ coached.pass = "first")
                     => coach_runs = 2 * coached.idx + 1
               /\ (LastRanLesson /\ coached.pass = "second")
                     => coach_runs = 2 * coached.idx + 2
               /\ LastRanLesson => coached.pass \in {"first", "second"}

\* DMAIC (two steps) became completed on its fourth coach invocation
C20_Witness ==
    /\ pc = "completion" /\ LastRanLesson
    /\ ls_now.lesson_id = "dmaic" /\ ls_now.completed
    /\ coached.pass = "second" /\ coached.idx = 1
    /\ coach_runs = 4

\* ---------------------------------------------------------------------------
\* C22. When the completion handler is entered for a lesson with n >= 1 steps,
\* user_entries has a key for every step index 0..n-1, so no record takes the
\* "" default of user_entries.get; and between turns of an active lesson the
\* keys of user_entries are the indices below current_step_idx, plus
\* current_step_idx itself when improvement_suggested is TRUE.
C22_ExportCompleteness ==
    LET n == Len(StepsOf(ls_now.lesson_id))
    IN  /\ (pc = "completion" /\ n >= 1)
              => DOMAIN ls_now.user_entries = 0..(n - 1)
        /\ \A c \in 1..Len(exported) :
              \A r \in 1..Len(exported[c]) :
                 \/ ls_now = DefaultLessonState
                 \/ /\ (r - 1) \in DOMAIN ls_now.user_entries
                    /\ exported[c][r].user_input = ls_now.user_entries[r - 1]
        /\ (pc = "idle" /\ ls_now.active)
              => DOMAIN ls_now.user_entries =
                    (0..(ls_now.current_step_idx - 1))
                    \cup (IF ls_now.improvement_suggested
                          THEN {ls_now.current_step_idx} ELSE {})

\* the completion handler is entered for DMAIC with an entry for each of its steps
C22_Witness ==
    /\ pc = "completion" /\ ran = <<"lesson">>
    /\ ls_now.lesson_id = "dmaic"
    /\ DOMAIN ls_now.user_entries = {0, 1}

\* ---------------------------------------------------------------------------
\* C23. When the coach runs with current_step_idx >= len(steps) (a lesson with
\* no steps), it sets completed and returns: the completion service is not
\* called, no message is appended, and current_step_idx, improvement_suggested
\* and user_entries are left as they were.
C23_OutOfRangeStep ==
    [][ ( /\ pc = "lesson"
          /\ ls_now.active /\ ls_now.lesson_id # None
          /\ ls_now.current_step_idx >= Len(StepsOf(ls_now.lesson_id)) )
        => /\ ls_now'.completed
           /\ ls_now' = [ls_now EXCEPT !.completed = TRUE]
           /\ ls_now'.current_step_idx = ls_now.current_step_idx
           /\ ls_now'.improvement_suggested = ls_now.improvement_suggested
           /\ ls_now'.user_entries = ls_now.user_entries
           /\ app_state'.messages = app_state.messages
           /\ called' = called /\ called' = << >> ]_vars

\* the coach ran on the lesson without steps, started from the sidebar
C23_Witness ==
    /\ pc = "completion" /\ ran = <<"lesson">>
    /\ ls_now.lesson_id = "5whys" /\ ls_now.completed
    /\ ls_now.current_step_idx = 0 /\ ~ls_now.improvement_suggested
    /\ called = << >>
    /\ hit = None
    /\ Len(app_state.messages) = pre.len + 1

\* ---------------------------------------------------------------------------
\* C21. If the user keeps sending messages that are not banned and start no
\* lesson, and the exporter does not fail, every active lesson reaches the
\* completion handler and lesson_state returns to its inactive defaults.
C21_LessonLiveness ==
    ls_now.active
        ~> ( /\ pc = "idle"
             /\ ran # << >> /\ ran[Len(ran)] = "completion"
             /\ ls_now = DefaultLessonState )

\* the cap on runs never withholds a message from an active lesson
C21_RunsSuffice ==
    (pc = "idle" /\ ls_now.active) => runs < MaxLiveRuns + MaxDwell

\* DMAIC was completed and reset by messages sent after the free runs
C21_Witness ==
    /\ pc = "idle" /\ ran = <<"lesson", "completion">>
    /\ coached.lesson_id = "dmaic" /\ export = "ok"
    /\ ls_now = DefaultLessonState
    /\ runs >= MaxLiveRuns + 3

====
